---- MODULE Spec2Model ----
(***************************************************************************)
(* Per-thread state of the epoch-based reclamation scheme                  *)
(* (src/src/gc/thread_state.rs) at the granularity of its atomic           *)
(* operations, together with the collaborators it is generic over: the     *)
(* global coordinator (EbrState), the allocator's retirement buckets and   *)
(* the sampling generator, which are modelled from their contracts.        *)
(***************************************************************************)
EXTENDS Integers, Naturals, Sequences, FiniteSets, TLC

\* ------------------------------------------------------------------ bounds
MaxNest == 2           \* deepest nesting of enter calls a caller makes
MaxEpoch == 2          \* the coordinator stops advancing here
MaxUnderflow == 1      \* unbalanced exit calls a misbehaving caller makes
UsizeBits == 3         \* width of usize in the model
RngPeriod == 2         \* period of the sampling generator in the model
MaxDraws == 2          \* sampling decisions the history keeps per thread

\* --------------------------------------------------------------- constants
COLLECT_CHANCE == 4

\* the thread that only drives the coordinator's advance path
Driver == 0

\* the ids of the participating threads
Threads == {1, 2}
Procs == Threads \cup {Driver}
Epochs == 0..MaxEpoch
USIZE_MODULUS == 2 ^ UsizeBits
USIZE_MAX == USIZE_MODULUS - 1

VARIABLES
    debug_assertions,  \* build configuration: are debug_assert!s compiled in
    state_epoch,       \* the coordinator's global epoch
    active,            \* ThreadState.active, per thread
    epoch,             \* ThreadState.epoch, per thread
    rng,               \* ThreadState.rng, per thread
    pc,                \* position of each thread (and of the driver)
    prev_active,       \* local of enter/exit: value returned by fetch_add/fetch_sub
    global_epoch,      \* local of enter: the epoch loaded from the coordinator
    draw,              \* local of should_advance: the generator's output
    trace,             \* what the call in progress has done so far, in order
    cycle_epoch,       \* local of try_cycle: the global epoch it scans against
    scan_idx,          \* local of try_cycle: next thread to scan
    collected,         \* local of try_cycle: the buckets this cycle freed
    calls,             \* caller: enter calls minus exit calls made so far
    garbage,           \* allocator: epochs whose bucket holds retired objects
    held,              \* per thread: retirement epochs of objects it may still read
    store_buf,         \* per thread: its stores to epoch that are not yet visible
    ids,               \* history: the thread_id each ThreadState was built with
    history,           \* are the two history variables below being kept
    decisions,         \* history: the sampling decisions of each thread, in order
    entry_epoch        \* history: the global epoch when active last left zero

vars == <<debug_assertions, state_epoch, active, epoch, rng, pc, prev_active,
          global_epoch, draw, trace, cycle_epoch, scan_idx, collected, calls,
          garbage, held, store_buf, ids, history, decisions, entry_epoch>>

\* ------------------------------------------------------- sampling generator
\* crate::utils::wyrng, a black box: a deterministic sequence per seed. Its
\* state steps through a cycle and its output is a function of the state that
\* takes multiples of COLLECT_CHANCE and other values.
WyRngNew(thread_id) == thread_id % RngPeriod

WyRngNext(s) == (s + 1) % RngPeriod

\* output of generate() in the state reached by WyRngNext
WyRngOutput(s) == 3 * s + 4

\* ------------------------------------------------------------- ThreadState
\* a plausible slip: the counter treated as the "active flag" of the struct's
\* doc comment, set rather than counted
FetchAdd_Flag(v) == 1

FetchAdd(v) == (v + 1) % USIZE_MODULUS

\* a plausible slip: the flag cleared rather than the counter decremented
FetchSub_Flag(v) == 0

FetchSub(v) == (v - 1) % USIZE_MODULUS

\* a plausible slip: the comparison made against the value after the increment
IsOutermost_AfterIncrement(prev) == prev <= 1

\* enter: `self.active.fetch_add(1, ..) == 0`
IsOutermost(prev) == prev = 0

\* a plausible slip: every exit that had an enter outstanding samples
BecameIdle_NonZero(prev) == prev # 0

\* exit: `prev_active == 1`
BecameIdle(prev) == prev = 1

\* exit: debug_assert!(prev_active != 0)
AssertFails(prev) == debug_assertions /\ ~(prev # 0)

\* a plausible slip: the comparison inverted
Hit_Inverted(d) == d % COLLECT_CHANCE # 0

\* should_advance: `rng.generate() % COLLECT_CHANCE == 0`
Hit(d) == d % COLLECT_CHANCE = 0

\* a plausible slip: the query made to mean what its name says
is_active_InSection(t) == active[t] # 0

is_active(t) == active[t] = 0

load_epoch(t) == epoch[t]

\* the caller is between the return of an outermost enter and the call of
\* the matching exit
InSection(t) ==
    /\ calls[t] >= 1
    /\ ~(calls[t] = 1 /\ pc[t] \in {"enter_load", "enter_store", "enter_fence"})

\* a plausible slip: the epoch field built from Epoch's default instead of
\* the value loaded from the coordinator
new_DefaultEpoch(global, thread_id) ==
    [active |-> 0, epoch |-> 0, rng |-> WyRngNew(thread_id)]

\* lines 33-42: the fields ThreadState::new builds, `global` being the value
\* its state.load_epoch() returned
new(global, thread_id) ==
    [active |-> 0, epoch |-> global, rng |-> WyRngNew(thread_id)]

\* every thread's state has been built, thread t with thread_id t, before the
\* coordinator's epoch first moved
Init ==
    /\ debug_assertions \in BOOLEAN
    /\ state_epoch = 0
    /\ active = [t \in Threads |-> new(state_epoch, t).active]
    /\ epoch = [t \in Threads |-> new(state_epoch, t).epoch]
    /\ rng = [t \in Threads |-> new(state_epoch, t).rng]
    /\ pc = [p \in Procs |-> "idle"]
    /\ store_buf = [t \in Threads |-> <<>>]
    /\ ids = [t \in Threads |-> t]
    /\ history = FALSE
    /\ decisions = [t \in Threads |-> <<>>]
    /\ entry_epoch = [t \in Threads |-> 0]
    /\ prev_active = [t \in Threads |-> 0]
    /\ global_epoch = [t \in Threads |-> 0]
    /\ draw = [t \in Threads |-> 0]
    /\ trace = [t \in Threads |-> <<>>]
    /\ cycle_epoch = [p \in Procs |-> 0]
    /\ scan_idx = [p \in Procs |-> 0]
    /\ collected = [p \in Procs |-> {}]
    /\ calls = [t \in Threads |-> 0]
    /\ garbage = {}
    /\ held = [t \in Threads |-> {}]

\* --------------------------------------------------------- ThreadState::new
\* line 34: let global_epoch = state.load_epoch(); the history notes the
\* thread_id the caller passed
new_load_epoch(t, thread_id) ==
    /\ pc[t] = "unborn"
    /\ ids' = [ids EXCEPT ![t] = thread_id]
    /\ global_epoch' = [global_epoch EXCEPT ![t] = state_epoch]
    /\ trace' = [trace EXCEPT ![t] = <<"load_epoch">>]
    /\ pc' = [pc EXCEPT ![t] = "new_build"]
    /\ UNCHANGED <<debug_assertions, state_epoch, active, epoch, rng, prev_active,
                   draw, cycle_epoch, scan_idx, collected, calls, garbage, held,
                   store_buf, history, decisions, entry_epoch>>

\* lines 36-40: Self { active, epoch, rng }
new_build(t) ==
    /\ pc[t] = "new_build"
    /\ active' = [active EXCEPT ![t] = new(global_epoch[t], ids[t]).active]
    /\ epoch' = [epoch EXCEPT ![t] = new(global_epoch[t], ids[t]).epoch]
    /\ rng' = [rng EXCEPT ![t] = new(global_epoch[t], ids[t]).rng]
    /\ trace' = [trace EXCEPT ![t] = Append(trace[t], "build")]
    /\ pc' = [pc EXCEPT ![t] = "new_done"]
    /\ UNCHANGED <<debug_assertions, state_epoch, prev_active, global_epoch, draw,
                   cycle_epoch, scan_idx, collected, calls, garbage, held,
                   store_buf, ids, history, decisions, entry_epoch>>

\* line 41: new returns; its local dies
new_return(t) ==
    /\ pc[t] = "new_done"
    /\ pc' = [pc EXCEPT ![t] = "idle"]
    /\ global_epoch' = [global_epoch EXCEPT ![t] = 0]
    /\ trace' = [trace EXCEPT ![t] = <<>>]
    /\ UNCHANGED <<debug_assertions, state_epoch, active, epoch, rng, prev_active,
                   draw, cycle_epoch, scan_idx, collected, calls, garbage, held,
                   store_buf, ids, history, decisions, entry_epoch>>

\* ------------------------------------------------------- ThreadState::enter
\* line 67: self.active.fetch_add(1, Ordering::SeqCst) == 0
enter_fetch_add(t) ==
    /\ pc[t] = "idle"
    /\ calls[t] < MaxNest
    /\ active' = [active EXCEPT ![t] = FetchAdd(active[t])]
    /\ prev_active' = [prev_active EXCEPT ![t] = active[t]]
    /\ trace' = [trace EXCEPT ![t] = <<"fetch_add">>]
    /\ calls' = [calls EXCEPT ![t] = calls[t] + 1]
    /\ pc' = [pc EXCEPT ![t] = IF IsOutermost(active[t]) THEN "enter_load"
                                                          ELSE "enter_done"]
    /\ entry_epoch' = IF history /\ active[t] = 0
                         THEN [entry_epoch EXCEPT ![t] = state_epoch]
                         ELSE entry_epoch
    /\ UNCHANGED <<debug_assertions, state_epoch, epoch, rng, global_epoch, draw,
                   cycle_epoch, scan_idx, collected, garbage, held,
                   store_buf, ids, history, decisions>>

\* a plausible slip: self.load_epoch() written for state.load_epoch(), the
\* thread's own epoch announced again instead of the coordinator's
enter_load_epoch_Self(t) ==
    /\ pc[t] = "enter_load"
    /\ global_epoch' = [global_epoch EXCEPT ![t] = load_epoch(t)]
    /\ trace' = [trace EXCEPT ![t] = Append(trace[t], "load_epoch")]
    /\ pc' = [pc EXCEPT ![t] = "enter_store"]
    /\ UNCHANGED <<debug_assertions, state_epoch, active, epoch, rng, prev_active,
                   draw, cycle_epoch, scan_idx, collected, calls, garbage, held,
                   store_buf, ids, history, decisions, entry_epoch>>

\* a plausible slip: the load made under a lock the coordinator holds while
\* it scans, so that enter waits for a cycle in progress to end
enter_load_epoch_Locked(t) ==
    /\ pc[t] = "enter_load"
    /\ \A p \in Procs \ {t} :
          pc[p] \notin {"cycle_scan_active", "cycle_scan_epoch", "cycle_cas"}
    /\ global_epoch' = [global_epoch EXCEPT ![t] = state_epoch]
    /\ trace' = [trace EXCEPT ![t] = Append(trace[t], "load_epoch")]
    /\ pc' = [pc EXCEPT ![t] = "enter_store"]
    /\ UNCHANGED <<debug_assertions, state_epoch, active, epoch, rng, prev_active,
                   draw, cycle_epoch, scan_idx, collected, calls, garbage, held,
                   store_buf, ids, history, decisions, entry_epoch>>

\* line 68: let global_epoch = state.load_epoch();
enter_load_epoch(t) ==
    /\ pc[t] = "enter_load"
    /\ global_epoch' = [global_epoch EXCEPT ![t] = state_epoch]
    /\ trace' = [trace EXCEPT ![t] = Append(trace[t], "load_epoch")]
    /\ pc' = [pc EXCEPT ![t] = "enter_store"]
    /\ UNCHANGED <<debug_assertions, state_epoch, active, epoch, rng, prev_active,
                   draw, cycle_epoch, scan_idx, collected, calls, garbage, held,
                   store_buf, ids, history, decisions, entry_epoch>>

\* a plausible slip: the coordinator's epoch read again at the store instead
\* of the value loaded being stored
enter_store_epoch_Reread(t) ==
    /\ pc[t] = "enter_store"
    /\ store_buf' = [store_buf EXCEPT ![t] = Append(store_buf[t], state_epoch)]
    /\ trace' = [trace EXCEPT ![t] = Append(trace[t], "store_epoch")]
    /\ pc' = [pc EXCEPT ![t] = "enter_fence"]
    /\ UNCHANGED <<debug_assertions, state_epoch, active, epoch, rng, prev_active,
                   global_epoch, draw, cycle_epoch, scan_idx, collected, calls,
                   garbage, held, ids, history, decisions, entry_epoch>>

\* a plausible slip: the epoch after the one loaded announced, as if the
\* section already belonged to the advance it might see
enter_store_epoch_Next(t) ==
    /\ pc[t] = "enter_store"
    /\ store_buf' = [store_buf EXCEPT ![t] = Append(store_buf[t], global_epoch[t] + 1)]
    /\ trace' = [trace EXCEPT ![t] = Append(trace[t], "store_epoch")]
    /\ pc' = [pc EXCEPT ![t] = "enter_fence"]
    /\ UNCHANGED <<debug_assertions, state_epoch, active, epoch, rng, prev_active,
                   global_epoch, draw, cycle_epoch, scan_idx, collected, calls,
                   garbage, held, ids, history, decisions, entry_epoch>>

\* line 69: self.epoch.store(global_epoch); a release store, which other
\* threads need not see at once: it waits in the thread's store buffer
enter_store_epoch(t) ==
    /\ pc[t] = "enter_store"
    /\ store_buf' = [store_buf EXCEPT ![t] = Append(store_buf[t], global_epoch[t])]
    /\ trace' = [trace EXCEPT ![t] = Append(trace[t], "store_epoch")]
    /\ pc' = [pc EXCEPT ![t] = "enter_fence"]
    /\ UNCHANGED <<debug_assertions, state_epoch, active, epoch, rng, prev_active,
                   global_epoch, draw, cycle_epoch, scan_idx, collected, calls,
                   garbage, held, ids, history, decisions, entry_epoch>>

\* a buffered store to epoch becomes visible to the other threads, at a time
\* the thread does not choose
Flush(t) ==
    /\ store_buf[t] # <<>>
    /\ epoch' = [epoch EXCEPT ![t] = Head(store_buf[t])]
    /\ store_buf' = [store_buf EXCEPT ![t] = Tail(store_buf[t])]
    /\ UNCHANGED <<debug_assertions, state_epoch, active, rng, pc, prev_active,
                   global_epoch, draw, trace, cycle_epoch, scan_idx, collected,
                   calls, garbage, held, ids, history, decisions, entry_epoch>>

\* a plausible slip: a fence that orders nothing against the later reads (a
\* compiler fence, or a release fence), so that enter goes on while its store
\* is still buffered
enter_fence_Release(t) ==
    /\ pc[t] = "enter_fence"
    /\ trace' = [trace EXCEPT ![t] = Append(trace[t], "fence")]
    /\ pc' = [pc EXCEPT ![t] = "enter_done"]
    /\ UNCHANGED <<debug_assertions, state_epoch, active, epoch, rng, prev_active,
                   global_epoch, draw, cycle_epoch, scan_idx, collected, calls,
                   garbage, held, store_buf, ids, history, decisions,
                   entry_epoch>>

\* line 70: fence(Ordering::SeqCst); nothing after it happens before every
\* earlier store of the thread is visible
enter_fence(t) ==
    /\ pc[t] = "enter_fence"
    /\ epoch' = [epoch EXCEPT ![t] =
                    IF store_buf[t] = <<>> THEN epoch[t]
                    ELSE store_buf[t][Len(store_buf[t])]]
    /\ store_buf' = [store_buf EXCEPT ![t] = <<>>]
    /\ trace' = [trace EXCEPT ![t] = Append(trace[t], "fence")]
    /\ pc' = [pc EXCEPT ![t] = "enter_done"]
    /\ UNCHANGED <<debug_assertions, state_epoch, active, rng, prev_active,
                   global_epoch, draw, cycle_epoch, scan_idx, collected, calls,
                   garbage, held, ids, history, decisions, entry_epoch>>

\* line 72: enter returns; its locals die
enter_return(t) ==
    /\ pc[t] = "enter_done"
    /\ pc' = [pc EXCEPT ![t] = "idle"]
    /\ prev_active' = [prev_active EXCEPT ![t] = 0]
    /\ global_epoch' = [global_epoch EXCEPT ![t] = 0]
    /\ trace' = [trace EXCEPT ![t] = <<>>]
    /\ UNCHANGED <<debug_assertions, state_epoch, active, epoch, rng, draw,
                   cycle_epoch, scan_idx, collected, calls, garbage, held,
                   store_buf, ids, history, decisions, entry_epoch>>

\* -------------------------------------------------------- ThreadState::exit
\* lines 77-84: let prev_active = self.active.fetch_sub(1, Ordering::SeqCst);
\* debug_assert!(prev_active != 0); if prev_active == 1 { .. }, and in it the
\* left operand of should_advance's && (lines 49-50), which touches only the
\* generator private to the thread.
\* A caller leaving its outermost section holds no reference any more. The
\* history gets whether the sample of an exit that brought the counter to
\* zero was a hit.
exit_fetch_sub(t) ==
    /\ pc[t] = "idle"
    /\ active' = [active EXCEPT ![t] = FetchSub(active[t])]
    /\ prev_active' = [prev_active EXCEPT ![t] = active[t]]
    /\ calls' = [calls EXCEPT ![t] = calls[t] - 1]
    /\ held' = [held EXCEPT ![t] = IF calls[t] = 1 THEN {} ELSE held[t]]
    /\ IF AssertFails(active[t])
       THEN /\ pc' = [pc EXCEPT ![t] = "panicked"]
            /\ trace' = [trace EXCEPT ![t] = <<"fetch_sub", "panic">>]
            /\ UNCHANGED <<rng, draw>>
       ELSE IF BecameIdle(active[t])
       THEN /\ rng' = [rng EXCEPT ![t] = WyRngNext(rng[t])]
            /\ draw' = [draw EXCEPT ![t] = WyRngOutput(WyRngNext(rng[t]))]
            /\ trace' = [trace EXCEPT ![t] = <<"fetch_sub", "generate">>]
            /\ pc' = [pc EXCEPT ![t] = IF Hit(WyRngOutput(WyRngNext(rng[t])))
                                       THEN "exit_due" ELSE "exit_done"]
       ELSE /\ pc' = [pc EXCEPT ![t] = "exit_done"]
            /\ trace' = [trace EXCEPT ![t] = <<"fetch_sub">>]
            /\ UNCHANGED <<rng, draw>>
    /\ decisions' =
         IF history /\ active[t] = 1 /\ Len(decisions[t]) < MaxDraws
         THEN [decisions EXCEPT ![t] = Append(decisions[t], pc'[t] = "exit_due")]
         ELSE decisions
    /\ UNCHANGED <<debug_assertions, state_epoch, epoch, global_epoch,
                   cycle_epoch, scan_idx, collected, garbage,
                   store_buf, ids, history, entry_epoch>>

\* lines 50, 84: state.should_advance(), the right operand of &&; the
\* coordinator's answer is a heuristic of its own
exit_due(t) ==
    /\ pc[t] = "exit_due"
    /\ \E due \in BOOLEAN :
         /\ trace' = [trace EXCEPT ![t] =
                        Append(trace[t], IF due THEN "should_advance=true"
                                                ELSE "should_advance=false")]
         /\ pc' = [pc EXCEPT ![t] = IF due THEN "try_cycle" ELSE "exit_done"]
    /\ UNCHANGED <<debug_assertions, state_epoch, active, epoch, rng, prev_active,
                   global_epoch, draw, cycle_epoch, scan_idx, collected, calls,
                   garbage, held,
                   store_buf, ids, history, decisions, entry_epoch>>

\* line 88: exit returns; its locals, and those of the try_cycle it made, die
exit_return(t) ==
    /\ pc[t] = "exit_done"
    /\ pc' = [pc EXCEPT ![t] = "idle"]
    /\ prev_active' = [prev_active EXCEPT ![t] = 0]
    /\ draw' = [draw EXCEPT ![t] = 0]
    /\ trace' = [trace EXCEPT ![t] = <<>>]
    /\ cycle_epoch' = [cycle_epoch EXCEPT ![t] = 0]
    /\ scan_idx' = [scan_idx EXCEPT ![t] = 0]
    /\ collected' = [collected EXCEPT ![t] = {}]
    /\ UNCHANGED <<debug_assertions, state_epoch, active, epoch, rng, global_epoch,
                   calls, garbage, held,
                   store_buf, ids, history, decisions, entry_epoch>>

\* ------------------------------------------ the coordinator's try_cycle
\* Entered by a thread from exit (line 85) or by the driver at any time:
\* read the global epoch the scan is made against.
try_cycle_load(p) ==
    /\ \/ p \in Threads /\ pc[p] = "try_cycle"
       \/ p = Driver /\ pc[p] = "idle"
    /\ cycle_epoch' = [cycle_epoch EXCEPT ![p] = state_epoch]
    /\ scan_idx' = [scan_idx EXCEPT ![p] = 1]
    /\ trace' = [t \in Threads |-> IF t = p THEN Append(trace[t], "try_cycle")
                                            ELSE trace[t]]
    /\ pc' = [pc EXCEPT ![p] = "cycle_scan_active"]
    /\ UNCHANGED <<debug_assertions, state_epoch, active, epoch, rng, prev_active,
                   global_epoch, draw, collected, calls, garbage, held,
                   store_buf, ids, history, decisions, entry_epoch>>

\* the scan asks the next thread's state whether it is idle, and skips it
\* if it is
try_cycle_scan_active(p) ==
    /\ pc[p] = "cycle_scan_active"
    /\ IF is_active(scan_idx[p])
       THEN /\ scan_idx' = [scan_idx EXCEPT ![p] = scan_idx[p] + 1]
            /\ pc' = [pc EXCEPT ![p] = IF scan_idx[p] = Cardinality(Threads)
                                       THEN "cycle_cas" ELSE "cycle_scan_active"]
       ELSE /\ pc' = [pc EXCEPT ![p] = "cycle_scan_epoch"]
            /\ UNCHANGED scan_idx
    /\ UNCHANGED <<debug_assertions, state_epoch, active, epoch, rng, prev_active,
                   global_epoch, draw, trace, cycle_epoch, collected, calls,
                   garbage, held,
                   store_buf, ids, history, decisions, entry_epoch>>

\* a thread inside a section must have announced the epoch scanned against
try_cycle_scan_epoch(p) ==
    /\ pc[p] = "cycle_scan_epoch"
    /\ IF load_epoch(scan_idx[p]) = cycle_epoch[p]
       THEN /\ scan_idx' = [scan_idx EXCEPT ![p] = scan_idx[p] + 1]
            /\ pc' = [pc EXCEPT ![p] = IF scan_idx[p] = Cardinality(Threads)
                                       THEN "cycle_cas" ELSE "cycle_scan_active"]
       ELSE /\ pc' = [pc EXCEPT ![p] = IF p = Driver THEN "cycle_done" ELSE "exit_done"]
            /\ UNCHANGED scan_idx
    /\ UNCHANGED <<debug_assertions, state_epoch, active, epoch, rng, prev_active,
                   global_epoch, draw, trace, cycle_epoch, collected, calls,
                   garbage, held,
                   store_buf, ids, history, decisions, entry_epoch>>

\* the buckets the allocator frees once the global epoch is e
Reclaimable(e) == {b \in garbage : b + 2 <= e}

\* all scanned threads are caught up: compare-and-commit the advance; the
\* winner has the allocator free the buckets two or more epochs old
try_cycle_cas(p) ==
    /\ pc[p] = "cycle_cas"
    /\ IF state_epoch = cycle_epoch[p] /\ state_epoch < MaxEpoch
       THEN /\ state_epoch' = state_epoch + 1
            /\ collected' = [collected EXCEPT ![p] = Reclaimable(state_epoch + 1)]
            /\ garbage' = garbage \ Reclaimable(state_epoch + 1)
       ELSE UNCHANGED <<state_epoch, collected, garbage,
                   store_buf, ids, history, decisions, entry_epoch>>
    /\ pc' = [pc EXCEPT ![p] = IF p = Driver THEN "cycle_done" ELSE "exit_done"]
    /\ UNCHANGED <<debug_assertions, active, epoch, rng, prev_active, global_epoch,
                   draw, trace, cycle_epoch, scan_idx, calls, held,
                   store_buf, ids, history, decisions, entry_epoch>>

\* the driver's call returns; its locals die
try_cycle_return(p) ==
    /\ pc[p] = "cycle_done"
    /\ pc' = [pc EXCEPT ![p] = "idle"]
    /\ cycle_epoch' = [cycle_epoch EXCEPT ![p] = 0]
    /\ scan_idx' = [scan_idx EXCEPT ![p] = 0]
    /\ collected' = [collected EXCEPT ![p] = {}]
    /\ UNCHANGED <<debug_assertions, state_epoch, active, epoch, rng, prev_active,
                   global_epoch, draw, trace, calls, garbage, held,
                   store_buf, ids, history, decisions, entry_epoch>>

\* ------------------------------------------------ the allocator's retire
\* An object is unlinked and put in the bucket of the current global epoch;
\* the threads inside a section at that moment may have read it.
Retire ==
    /\ \E t \in Threads : InSection(t) /\ state_epoch \notin held[t]
    /\ garbage' = garbage \cup {state_epoch}
    /\ held' = [t \in Threads |-> IF InSection(t) THEN held[t] \cup {state_epoch}
                                                  ELSE held[t]]
    /\ UNCHANGED <<debug_assertions, state_epoch, active, epoch, rng, pc,
                   prev_active, global_epoch, draw, trace, cycle_epoch, scan_idx,
                   collected, calls,
                   store_buf, ids, history, decisions, entry_epoch>>

\* ------------------------------------------------------------ the callers
\* a caller that pairs its calls
PairedExit(t) == calls[t] >= 1 /\ exit_fetch_sub(t)

\* a caller that calls exit with no outstanding enter
UnpairedExit(t) == calls[t] < 1 /\ calls[t] > 0 - MaxUnderflow /\ exit_fetch_sub(t)

Step(t) ==
    \/ enter_fetch_add(t)
    \/ enter_load_epoch(t)
    \/ enter_store_epoch(t)
    \/ enter_fence(t)
    \/ enter_return(t)
    \/ PairedExit(t)
    \/ exit_due(t)
    \/ exit_return(t)

Cycle(p) ==
    \/ try_cycle_load(p)
    \/ try_cycle_scan_active(p)
    \/ try_cycle_scan_epoch(p)
    \/ try_cycle_cas(p)

Next ==
    \/ \E t \in Threads : Step(t)
    \/ \E t \in Threads : Cycle(t)
    \/ \E t \in Threads : Flush(t)

\* callers keep the contract: every exit has an outstanding enter
Spec == Init /\ [][Next]_vars

NextUnpaired ==
    \/ Next
    \/ \E t \in Threads : UnpairedExit(t)

\* callers may also call exit with no outstanding enter
SpecUnpaired == Init /\ [][NextUnpaired]_vars

NextReclaim ==
    \/ Next
    \/ Cycle(Driver)
    \/ try_cycle_return(Driver)
    \/ Retire

\* Callers that pair their calls never fail the assertion of line 80 (the
\* counter is at least one at every exit, C6), so the two builds behave alike
\* under them and one is explored.
InitReclaim == Init /\ debug_assertions

\* with objects being retired and a thread that only drives the advance path
SpecReclaim == InitReclaim /\ [][NextReclaim]_vars

NextDriven ==
    \/ Next
    \/ Cycle(Driver)
    \/ try_cycle_return(Driver)

\* with a thread that only drives the advance path, at any time
SpecDriven == InitReclaim /\ [][NextDriven]_vars

\* No thread's state exists yet: a thread that is "unborn" is not registered
\* with the coordinator, whose scan passes over it as over an idle thread, and
\* the fields it will get hold zeros meanwhile. The histories are kept.
InitHistory ==
    /\ debug_assertions = TRUE
    /\ state_epoch = 0
    /\ active = [t \in Threads |-> 0]
    /\ epoch = [t \in Threads |-> 0]
    /\ rng = [t \in Threads |-> 0]
    /\ pc = [p \in Procs |-> IF p \in Threads THEN "unborn" ELSE "idle"]
    /\ store_buf = [t \in Threads |-> <<>>]
    /\ ids = [t \in Threads |-> 0]
    /\ history = TRUE
    /\ decisions = [t \in Threads |-> <<>>]
    /\ entry_epoch = [t \in Threads |-> 0]
    /\ prev_active = [t \in Threads |-> 0]
    /\ global_epoch = [t \in Threads |-> 0]
    /\ draw = [t \in Threads |-> 0]
    /\ trace = [t \in Threads |-> <<>>]
    /\ cycle_epoch = [p \in Procs |-> 0]
    /\ scan_idx = [p \in Procs |-> 0]
    /\ collected = [p \in Procs |-> {}]
    /\ calls = [t \in Threads |-> 0]
    /\ garbage = {}
    /\ held = [t \in Threads |-> {}]

\* a thread's state is built at any time, with any thread_id
Build(t) ==
    \/ \E thread_id \in Threads : new_load_epoch(t, thread_id)
    \/ new_build(t)
    \/ new_return(t)

NextHistory ==
    \/ Next
    \/ \E t \in Threads : Build(t)

\* thread states built while the system runs, and the histories of what
\* each did
SpecHistory == InitHistory /\ [][NextHistory]_vars

\* ------------------------------------------------------------- properties
IsExit(t) == trace[t] # <<>> /\ trace[t][1] = "fetch_sub"

\* C1: no object retired while a thread was inside a critical section in which
\* it could have read the object is freed before that thread's matching
\* outermost exit: whatever such a thread may still read lies in a bucket the
\* allocator has not freed.
C1_NoFreeBeforeExit == \A t \in Threads : held[t] \subseteq garbage

\* a cycle has just freed a bucket while a thread inside a section still
\* holds an object retired, during that section, before the advance that
\* freed the bucket
C1_Witness ==
    \E p \in Procs, t \in Threads :
        /\ collected[p] # {}
        /\ InSection(t)
        /\ \E e \in held[t] : e < state_epoch /\ e \in garbage

\* C2: enter publishes the epoch if and only if it is the outermost entry.
\* The call that finds the counter at zero goes on to load the coordinator's
\* epoch, with the counter already incremented, and returns with the local
\* epoch equal to the value loaded; the call that finds it non-zero returns
\* having done nothing but the increment.
C2_EnterPublishesIffOutermost ==
    [][\A t \in Threads :
         /\ (pc[t] = "idle" /\ trace'[t] = <<"fetch_add">>) =>
               IF active[t] = 0
               THEN pc'[t] = "enter_load" /\ epoch'[t] = epoch[t]
               ELSE pc'[t] = "enter_done" /\ epoch'[t] = epoch[t]
         /\ (pc[t] = "enter_load" /\ pc'[t] # "enter_load") =>
               /\ global_epoch'[t] = state_epoch
               /\ active[t] = prev_active[t] + 1
         /\ (pc[t] = "enter_store" /\ pc'[t] # "enter_store") =>
               /\ pc'[t] = "enter_fence"
               /\ prev_active[t] = 0
         /\ (pc[t] = "enter_fence" /\ pc'[t] # "enter_fence") =>
               /\ pc'[t] = "enter_done"
               /\ prev_active[t] = 0
               /\ epoch'[t] = global_epoch[t]
               /\ trace'[t] = <<"fetch_add", "load_epoch", "store_epoch", "fence">>
    ]_vars

\* an outermost enter returns having published an epoch the coordinator
\* advanced to, while the other thread returns from a nested enter
C2_Witness ==
    \E t, u \in Threads :
        /\ pc[t] = "enter_done" /\ prev_active[t] = 0
        /\ epoch[t] = global_epoch[t] /\ epoch[t] >= 1
        /\ pc[u] = "enter_done" /\ prev_active[u] = 1
        /\ trace[u] = <<"fetch_add">>

\* C3: the local epoch changes only in the enter call that took the active
\* counter from zero to one; no other step of any call changes it, so it is
\* constant from one outermost enter to the next.
C3_EpochChangesOnlyAtOutermostEnter ==
    [][\A t \in Threads :
         epoch'[t] # epoch[t] =>
            /\ pc[t] = "enter_fence"
            /\ prev_active[t] = 0
            /\ active[t] = 1
    ]_vars

\* a thread two entries deep still announces the epoch of its outermost
\* enter although the global epoch has advanced since
C3_Witness ==
    \E t \in Threads :
        pc[t] = "idle" /\ calls[t] = 2 /\ epoch[t] < state_epoch

\* C4: an exit made with the active counter at zero always ends in the fatal
\* outcome, in every build configuration.
C4_UnpairedExitIsFatal ==
    \A t \in Threads :
        (IsExit(t) /\ prev_active[t] = 0) => pc[t] = "panicked"

\* C5: the active counter never wraps around to the maximum unsigned value.
C5_ActiveNeverWraps == \A t \in Threads : active[t] # USIZE_MAX

\* C6: while every prefix of a caller's calls has at least as many enters as
\* exits, the active counter equals the enters minus the exits, and the idle
\* query reports true whenever they balance.
C6_ActiveCountsOutstandingEnters ==
    \A t \in Threads :
        /\ active[t] = calls[t]
        /\ calls[t] = 0 => is_active(t)

\* a balanced sequence has just ended, after the coordinator advanced the
\* epoch and while the other thread is two entries deep
C6_Witness ==
    \E t, u \in Threads :
        /\ pc[t] = "exit_done" /\ prev_active[t] = 1 /\ calls[t] = 0
        /\ state_epoch >= 1
        /\ calls[u] = 2

\* C7: the idle query (is_active in the code) returns true if and only if
\* the active counter equals zero.
C7_IdleQueryIffCounterZero ==
    \A t \in Threads : is_active(t) <=> (active[t] = 0)

\* one thread's counter is zero and its query true, the other's counter has
\* wrapped and its query is false
C7_Witness ==
    \E t, u \in Threads :
        /\ active[t] = 0 /\ is_active(t)
        /\ active[u] = USIZE_MAX /\ ~is_active(u)

\* C8: is_active() returns true if and only if the thread is inside a
\* critical section (active counter greater than zero).
C8_IsActiveIffInSection ==
    \A t \in Threads : is_active(t) <=> (active[t] > 0)

\* C9: an exit that finds the counter at anything but one consults neither
\* the sampling generator nor the coordinator: it ends with the decrement.
C9_NoAdvanceCheckUnlessIdle ==
    [][\A t \in Threads :
         (pc[t] = "idle" /\ calls'[t] < calls[t] /\ active[t] # 1) =>
            /\ rng'[t] = rng[t]
            /\ pc'[t] \in {"exit_done", "panicked"}
            /\ trace'[t] \in {<<"fetch_sub">>, <<"fetch_sub", "panic">>}
    ]_vars

\* an exit from two entries deep has ended with the decrement alone
C9_Witness ==
    \E t \in Threads :
        /\ pc[t] = "exit_done" /\ prev_active[t] = 2
        /\ trace[t] = <<"fetch_sub">>
        /\ calls[t] = 1

CyclesIn(t) == {i \in 1..Len(trace[t]) : trace[t][i] = "try_cycle"}

AsksIn(t) ==
    {i \in 1..Len(trace[t]) :
        trace[t][i] \in {"should_advance=true", "should_advance=false"}}

DueTrue(t) == Len(trace[t]) >= 3 /\ trace[t][3] = "should_advance=true"

\* C10: in an exit that makes the thread idle, the coordinator is asked
\* whether an advance is due only after a draw that is a multiple of 4, and
\* try_cycle is called, at most once and right after the coordinator
\* answered true, if and only if the draw hit and the answer was true.
C10_CycleIffHitAndDue ==
    \A t \in Threads :
        (IsExit(t) /\ prev_active[t] = 1) =>
            /\ Len(trace[t]) >= 2 /\ trace[t][2] = "generate"
            /\ AsksIn(t) # {} => (draw[t] % 4 = 0 /\ AsksIn(t) = {3})
            /\ Cardinality(CyclesIn(t)) <= 1
            /\ \A i \in CyclesIn(t) : i = 4 /\ DueTrue(t)
            /\ pc[t] = "exit_done" =>
                  /\ draw[t] % 4 = 0 => AsksIn(t) # {}
                  /\ CyclesIn(t) # {} <=> (draw[t] % 4 = 0 /\ DueTrue(t))

\* one thread ends an exit in which the draw hit, the coordinator answered
\* true and try_cycle ran; the other ends one in which the draw missed
C10_Witness ==
    \E t, u \in Threads :
        /\ pc[t] = "exit_done"
        /\ trace[t] = <<"fetch_sub", "generate", "should_advance=true", "try_cycle">>
        /\ pc[u] = "exit_done"
        /\ trace[u] = <<"fetch_sub", "generate">>
        /\ draw[u] % 4 # 0

\* C11: immediately after ThreadState::new, before any enter, the active
\* counter is zero, the idle query reports true, and the local epoch equals
\* the coordinator's epoch as new read it, once, while constructing.
C11_NewIsIdleAtLoadedEpoch ==
    \A t \in Threads :
        pc[t] = "new_done" =>
            /\ active[t] = 0
            /\ is_active(t)
            /\ load_epoch(t) = global_epoch[t]
            /\ trace[t] = <<"load_epoch", "build">>

\* a state is built after the coordinator advanced, and the coordinator has
\* advanced again since new read its epoch
C11_Witness ==
    \E t \in Threads :
        /\ pc[t] = "new_done"
        /\ epoch[t] >= 1
        /\ state_epoch > epoch[t]

\* C12: the sampling decisions are a function of the thread id and of how
\* many exits brought the counter to zero before: two thread states built with
\* the same thread id make the same k-th decision, whatever epochs the
\* coordinator went through, whatever it answered, however the callers nested
\* their sections and whatever the other thread did.
C12_SamplingDependsOnIdAndCountOnly ==
    \A t, u \in Threads :
        ids[t] = ids[u] =>
            \A k \in 1..Len(decisions[t]) :
                k <= Len(decisions[u]) => decisions[t][k] = decisions[u][k]

\* two states built with the same thread id, at different epochs, have each
\* made a hit and a miss, one caller being inside a nested section
C12_Witness ==
    \E t, u \in Threads :
        /\ t # u /\ ids[t] = ids[u] /\ ids[t] # 0
        /\ Len(decisions[t]) = MaxDraws /\ Len(decisions[u]) = MaxDraws
        /\ \E j, k \in 1..MaxDraws : decisions[t][j] /\ ~decisions[t][k]
        /\ epoch[t] # epoch[u]
        /\ calls[t] = 2

\* the thread is inside a call of new, enter or exit
InCall(t) == pc[t] \notin {"idle", "panicked", "unborn"}

\* an upper bound of the steps the thread's call in progress has left, the
\* scan of try_cycle taking two steps for each thread
Rank(t) ==
    CASE pc[t] = "enter_load" -> 4
      [] pc[t] = "enter_store" -> 3
      [] pc[t] = "enter_fence" -> 2
      [] pc[t] = "enter_done" -> 1
      [] pc[t] = "new_build" -> 2
      [] pc[t] = "new_done" -> 1
      [] pc[t] = "exit_due" -> 2 * Cardinality(Threads) + 4
      [] pc[t] = "try_cycle" -> 2 * Cardinality(Threads) + 3
      [] pc[t] = "cycle_scan_active" ->
            2 * (Cardinality(Threads) - scan_idx[t]) + 4
      [] pc[t] = "cycle_scan_epoch" ->
            2 * (Cardinality(Threads) - scan_idx[t]) + 3
      [] pc[t] = "cycle_cas" -> 2
      [] pc[t] = "exit_done" -> 1
      [] OTHER -> 0

\* C13: enter and exit never block. In every state a thread that is inside a
\* call can take its next step, whatever the other threads are doing, and
\* every step it takes brings the call's return nearer: the call returns
\* after a bounded number of the thread's own steps (try_cycle, as modelled,
\* included).
C13_CallsNeverBlock ==
    /\ [](\A t \in Threads : InCall(t) => ENABLED (Step(t) \/ Cycle(t)))
    /\ [][\A t \in Threads :
            (InCall(t) /\ (pc'[t] # pc[t] \/ scan_idx'[t] # scan_idx[t])) =>
                /\ Rank(t)' < Rank(t)
                /\ Rank(t) <= 2 * Cardinality(Threads) + 4
         ]_vars

\* a thread is in the middle of an outermost enter, and another in the scan
\* of its exit, while the other thread makes a cycle
C13_Witness ==
    \E t, u \in Threads :
        /\ pc[t] \in {"enter_load", "cycle_scan_epoch"}
        /\ pc[u] = "cycle_cas"

\* C14 as claimed: once a thread has returned from an outermost enter, the
\* global epoch does not advance for as long as the thread stays in the section
\* (for ever, if it never calls exit).
C14_NoAdvanceWhileInSection ==
    [][(\E t \in Threads : InSection(t)) => state_epoch' = state_epoch]_vars

\* C14, amended: while a thread stays in a section the global epoch can
\* advance once more, from the epoch the thread announced to the next one, and
\* not again: an advance made while a thread is inside a section starts from
\* that thread's local epoch.
C14_OneAdvanceWhileInSection ==
    [][\A t \in Threads :
         (InSection(t) /\ state_epoch' # state_epoch) =>
             /\ state_epoch = epoch[t]
             /\ state_epoch' = epoch[t] + 1
    ]_vars

\* the epoch has advanced past a thread that is still in its section, and a
\* cycle attempted at the new epoch has ended without advancing it
C14_Witness ==
    \E t \in Threads :
        /\ InSection(t)
        /\ state_epoch = epoch[t] + 1
        /\ state_epoch < MaxEpoch
        /\ pc[Driver] = "cycle_done"
        /\ cycle_epoch[Driver] = state_epoch

\* C15: whenever a thread has returned from an outermost enter and has not
\* started the matching exit, the global epoch is at most one step ahead of
\* the thread's local epoch, whatever scans overlapped its enter.
C15_GracePeriod ==
    \A t \in Threads : InSection(t) => state_epoch <= epoch[t] + 1

\* the epoch is one step ahead of a thread in its section while a scan that
\* started before the advance is about to try its commit
C15_Witness ==
    \E t \in Threads :
        /\ InSection(t)
        /\ state_epoch = epoch[t] + 1
        /\ pc[Driver] = "cycle_cas"
        /\ cycle_epoch[Driver] < state_epoch

\* C16: an outermost enter does, in this order, the increment, the load of
\* the global epoch, the store of the local epoch and the fence, and returns
\* with the store visible; a thread inside a section (the only place where it
\* reads shared objects) has no store to its epoch still buffered, so whoever
\* scans it then reads a counter of at least one and the epoch it published.
C16_PublishedBeforeReads ==
    \A t \in Threads :
        /\ (pc[t] = "enter_done" /\ prev_active[t] = 0) =>
               /\ trace[t] = <<"fetch_add", "load_epoch", "store_epoch", "fence">>
               /\ epoch[t] = global_epoch[t]
        /\ InSection(t) => (store_buf[t] = <<>> /\ active[t] >= 1)

\* a scan has read the non-zero counter of a thread inside a section and is
\* about to read the epoch the thread published after an advance
C16_Witness ==
    \E t \in Threads :
        /\ InSection(t)
        /\ epoch[t] >= 1
        /\ pc[Driver] = "cycle_scan_epoch"
        /\ scan_idx[Driver] = t

\* C17 as claimed: no observer ever reads a counter of at least one together
\* with a local epoch, left from the previous section, that is older than the
\* global epoch at the moment the counter left zero.
C17_IncrementAndPublicationAtomic ==
    \A t \in Threads : ~(active[t] >= 1 /\ epoch[t] < entry_epoch[t])

\* C17, amended: the increment and the publication are separate steps, and
\* an observer reads a counter of at least one together with such an older
\* epoch only while the enter call that took the counter from zero is between
\* its increment and the end of its fence; from then until the counter is
\* back at zero the epoch read is not older than the global epoch at the
\* moment the counter left zero.
C17_StaleEpochOnlyInsideEnter ==
    \A t \in Threads :
        (active[t] >= 1 /\ epoch[t] < entry_epoch[t]) =>
            /\ pc[t] \in {"enter_load", "enter_store", "enter_fence"}
            /\ prev_active[t] = 0

\* the other thread's scan has read the counter of a thread, found it
\* non-zero, and is about to read the epoch of the thread's previous section
\* while the thread's store of the new one is still buffered
C17_Witness ==
    \E t, u \in Threads :
        /\ active[t] >= 1 /\ epoch[t] < entry_epoch[t]
        /\ pc[t] = "enter_fence" /\ store_buf[t] # <<>>
        /\ pc[u] = "cycle_scan_epoch" /\ scan_idx[u] = t

\* C18: in every reachable state each thread's local epoch is at or before
\* the global epoch, and no step moves a thread's local epoch backwards, the
\* store of an enter between whose load and store the global epoch advanced
\* included.
C18_LocalEpochBehindAndMonotone ==
    /\ [](\A t \in Threads : epoch[t] <= state_epoch)
    /\ [][\A t \in Threads : epoch'[t] >= epoch[t]]_vars

\* the global epoch has advanced since the enter in progress loaded it, and
\* the store of the loaded value, newer than the thread's last one, is still
\* to become visible
C18_Witness ==
    \E t \in Threads :
        /\ pc[t] = "enter_fence" /\ store_buf[t] # <<>>
        /\ epoch[t] < global_epoch[t]
        /\ global_epoch[t] < state_epoch

\* C19: with paired calls, a thread asks the coordinator whether an advance
\* is due, and runs try_cycle, only while its own active counter is zero: the
\* scan it triggers finds the thread itself idle.
C19_AdvanceRequestedOnlyWhenIdle ==
    \A t \in Threads :
        pc[t] \in {"exit_due", "try_cycle", "cycle_scan_active",
                   "cycle_scan_epoch", "cycle_cas"} =>
            /\ active[t] = 0
            /\ calls[t] = 0

\* the scan a thread's exit triggered has come to the thread itself, and
\* finds it idle, while the other thread is in a section
C19_Witness ==
    \E t, u \in Threads :
        /\ pc[t] = "cycle_scan_active" /\ scan_idx[t] = t
        /\ active[t] = 0
        /\ u # t /\ InSection(u)

====
